---- MODULE Spec2Model ----
(***************************************************************************)
(* WhatsApp-Web clone: the webhook-to-state reconciliation pipeline.      *)
(*                                                                         *)
(* Modelled code:                                                          *)
(*   server/index.js        the HTTP server: POST /webhook,                *)
(*                          POST /api/messages, GET /api/messages/:wa_id,  *)
(*                          GET /api/contacts, with its two persistence    *)
(*                          branches (if (db) ... else ...)                *)
(*   unnamed/part_000       class WebhookProcessor, the offline replay of  *)
(*                          payload files against the same database        *)
(*                                                                         *)
(* JavaScript values are represented as follows.                          *)
(*   undefined / a missing string field   the string Undef                 *)
(*   an optional object or array          None (<<>>) or Some(x) (<<x>>)   *)
(*   a decimal string such as "1625097600"  the sequence of its digits     *)
(*   a Number                             the sequence of its decimal      *)
(*                                        digits, most significant first   *)
(*                                        (exact, no 32-bit limit)         *)
(*   a template string `msg_${x}`         the tuple <<"msg", x>>           *)
(***************************************************************************)
EXTENDS Integers, Sequences, FiniteSets, TLC

VARIABLES
    db,                 \* TRUE: connectToDatabase succeeded, FALSE: db = null
    messagesStore,      \* the in-memory array messagesStore
    contactsStore,      \* the in-memory array contactsStore
    processed_messages, \* the collection processed_messages, in natural order
    contactsColl,       \* the collection contacts, in natural order
    inflight,           \* handlers suspended at an await, in arrival order
    last,               \* the handler run that finished most recently
    nreq,               \* requests and replays started so far
    nfault,             \* persistence calls that have thrown so far
    clients             \* the browser clients: socket and React state

vars == <<db, messagesStore, contactsStore, processed_messages, contactsColl,
          inflight, last, nreq, nfault, clients>>

(***************************************************************************)
(* Bounds of the model.                                                    *)
(***************************************************************************)
MaxRequests == 2    \* requests (and replays) started in one behaviour
MaxMsgs == 2        \* length of a payload's messages list
MaxStatuses == 2    \* length of a payload's statuses list
MaxContacts == 1    \* length of a payload's contacts list
MaxFaults == 1      \* persistence calls that throw in one behaviour

(***************************************************************************)
(* Optional values.                                                        *)
(***************************************************************************)
Undef == "undefined"
None == <<>>
Some(x) == <<x>>
IsSome(o) == Len(o) = 1
Get(o) == o[1]
Opt(S) == {None} \cup {Some(x) : x \in S}

(***************************************************************************)
(* Numbers as decimal digit sequences.                                     *)
(***************************************************************************)
NoNumber == <<>>        \* the field is absent
NaN == <<-1>>

RECURSIVE StripZeros(_)
StripZeros(d) ==
    IF Len(d) > 1 /\ d[1] = 0 THEN StripZeros(Tail(d)) ELSE d

\* parseInt(s) of a string of decimal digits; parseInt("") is NaN.
ParseInt(s) == IF s = <<>> THEN NaN ELSE StripZeros(s)

RECURSIVE DigitsOf(_)
DigitsOf(c) == IF c < 10 THEN <<c>> ELSE DigitsOf(c \div 10) \o <<c % 10>>

RECURSIVE MulDigits(_, _, _)
MulDigits(d, k, carry) ==
    IF d = <<>>
    THEN IF carry = 0 THEN <<>> ELSE DigitsOf(carry)
    ELSE LET p == d[Len(d)] * k + carry
         IN  MulDigits(SubSeq(d, 1, Len(d) - 1), k, p \div 10) \o <<p % 10>>

\* n * k for a Number n and a small natural k; NaN * k is NaN.
Times(n, k) == IF n = NaN THEN NaN ELSE StripZeros(MulDigits(n, k, 0))

\* a < b for two Numbers (neither NaN).
RECURSIVE LexLess(_, _)
LexLess(a, b) ==
    IF a = <<>> THEN FALSE
    ELSE IF a[1] # b[1] THEN a[1] < b[1]
    ELSE LexLess(Tail(a), Tail(b))

NumLess(a, b) ==
    IF Len(a) # Len(b) THEN Len(a) < Len(b) ELSE LexLess(a, b)


(***************************************************************************)
(* Inputs: the values a webhook envelope, a payload file or a request     *)
(* body is built from.                                                     *)
(***************************************************************************)
SeededWaId == "1234567890"      \* a conversation id contactsStore starts with
WaIds == {SeededWaId, "w2"}
MsgIds == {"m1", "m2"}
Names == {"Ann", "Bob"}
SampleTimestamp == <<1, 6, 2, 5, 0, 9, 7, 6, 0, 0>>    \* "1625097600"
StatusTimestamp == <<1, 6, 2, 5, 0, 9, 7, 6, 6, 0>>    \* "1625097660"
TimestampStrs == {SampleTimestamp, StatusTimestamp}
StatusValues == {"delivered", "read"}
PhoneNumberId == "102290129340398"
NowValues == {<<1, 7, 6, 2, 0, 0, 0, 0, 0, 0, 0, 0, 0>>}  \* Date.now()

\* The sequences over S of length 1..n.  A list that is present and empty
\* behaves as an absent one (the loop body never runs), so it is left out.
SeqsUpTo(S, n) == UNION {[1..k -> S] : k \in 1..n}

MessageEvents(ids, froms, stamps) ==
    [id : ids, from : froms, timestamp : stamps, text : {"hello"}, type : {"text"}]
StatusEvents(ids, statuses) ==
    [id : ids, status : statuses, timestamp : {StatusTimestamp}]
ContactDescs(was, names) == [wa_id : was, profile : [name : names]]

Singles(S) == {<<x>> : x \in S}

\* A JSON null where a sub-event is expected.
Null == [null |-> TRUE]
IsNull(item) == DOMAIN item = {"null"}

\* changes.value, its lists drawn from ms, ss and cs, each of them optional.
ValuesOf(ms, ss, cs) ==
    [metadata : {Some([phone_number_id |-> PhoneNumberId])},
     messages : Opt(ms), statuses : Opt(ss), contacts : Opt(cs)]

Envelope(field, value) ==
    [entry |-> Some(<<[changes |-> Some(<<[field |-> field, value |-> value]>>)]>>)]

\* The envelopes the handlers are to ignore; the last carries one message, one
\* status and one contact under another field.
IgnoredValue ==
    [metadata |-> Some([phone_number_id |-> PhoneNumberId]),
     messages |-> Some(<<[id |-> "m1", from |-> "w2", timestamp |-> SampleTimestamp,
                          text |-> "hello", type |-> "text"]>>),
     statuses |-> Some(<<[id |-> "m1", status |-> "read",
                          timestamp |-> StatusTimestamp]>>),
     contacts |-> Some(<<[wa_id |-> "w2", profile |-> [name |-> "Ann"]]>>)]

MalformedPayloads ==
    {[entry |-> None],                                 \* no entry
     [entry |-> Some(<<>>)],                           \* entry: []
     [entry |-> Some(<<[changes |-> None]>>)],         \* entry[0] has no changes
     [entry |-> Some(<<[changes |-> Some(<<>>)]>>)],   \* changes: []
     Envelope("messages", None),                       \* no value
     Envelope("account_update", Some(IgnoredValue))}   \* another field

WellFormed(values) == {Envelope("messages", Some(v)) : v \in values}

\* The body of POST /api/messages: any JSON object; the fields the handlers
\* and the queries read are kept.
ApiBodies ==
    [_id : {<<"client">>}, id : {Undef, "m1"},
     meta_msg_id : {Undef, "m2"}, from : {"me"}, to : {Undef},
     text : {"hello"}, timestamp : {NoNumber}, type : {"text"},
     status : {Undef}, wa_id : {"w2"}, profile_name : {Undef},
     status_timestamp : {NoNumber}]


(***************************************************************************)
(* The canonical records.                                                  *)
(***************************************************************************)
MsPerSecond == 1000

\* a || b for strings: undefined is falsy.
OrElse(a, b) == IF a = Undef THEN b ELSE a

\* changes.value.metadata?.phone_number_id
PhoneNumberIdOf(value) ==
    IF IsSome(value.metadata) THEN Get(value.metadata).phone_number_id ELSE Undef

\* contacts?.[0]?.profile?.name
FirstContactName(value) ==
    IF IsSome(value.contacts) /\ Len(Get(value.contacts)) >= 1
          /\ ~IsNull(Get(value.contacts)[1])
    THEN Get(value.contacts)[1].profile.name
    ELSE Undef

\* A variant that keeps the seconds.
TimestampInSeconds(ts) == ParseInt(ts)

\* parseInt(message.timestamp) * 1000
TimestampMs(ts) == Times(ParseInt(ts), MsPerSecond)

\* A variant that gives the record the status of the last status event
\* handled; none is kept, so the one of the samples stands for it.
ServerProcessedMessageRead(message, value) ==
    [_id |-> <<"msg", message.id>>,
     id |-> message.id,
     meta_msg_id |-> Undef,
     from |-> message.from,
     to |-> OrElse(PhoneNumberIdOf(value), "business"),
     text |-> message.text,
     timestamp |-> TimestampMs(message.timestamp),
     type |-> message.type,
     status |-> "read",
     wa_id |-> message.from,
     profile_name |-> OrElse(FirstContactName(value), message.from),
     status_timestamp |-> NoNumber]

\* The record the server builds from a message event: no meta_msg_id.
ServerProcessedMessage(message, value) ==
    [_id |-> <<"msg", message.id>>,
     id |-> message.id,
     meta_msg_id |-> Undef,
     from |-> message.from,
     to |-> OrElse(PhoneNumberIdOf(value), "business"),
     text |-> message.text,
     timestamp |-> TimestampMs(message.timestamp),
     type |-> message.type,
     status |-> "received",
     wa_id |-> message.from,
     profile_name |-> OrElse(FirstContactName(value), message.from),
     status_timestamp |-> NoNumber]

\* The record the replay script builds: meta_msg_id is the message id.
ReplayProcessedMessage(message, value) ==
    [ServerProcessedMessage(message, value) EXCEPT !.meta_msg_id = message.id]

\* A variant that spreads req.body last.
ApiMessageBodyLast(body, now, n) == body

\* { ...req.body, timestamp: Date.now(), _id: `msg_${Date.now()}_${random}` }
\* The random suffix makes the _id one that no stored record has: n counts the
\* records stored before it.
ApiMessage(body, now, n) ==
    [body EXCEPT !.timestamp = now, !._id = <<"msg", "api", n>>]

NewMessageEvent(doc) ==
    [event |-> "newMessage", message |-> doc, messageId |-> Undef, status |-> Undef]
StatusUpdateEvent(status) ==
    [event |-> "messageStatusUpdate", message |-> None,
     messageId |-> status.id, status |-> status.status]

(***************************************************************************)
(* The persistence operations.  Each yields the new contents and whether  *)
(* the call threw.                                                         *)
(***************************************************************************)
\* The least of the indices that match, 0 if there is none.
FirstIndex(hits) ==
    IF hits = {} THEN 0 ELSE CHOOSE i \in hits : \A j \in hits : i <= j

Done(coll) == [coll |-> coll, threw |-> FALSE]
Threw(coll) == [coll |-> coll, threw |-> TRUE]

\* collection.insertOne(doc): _id is the unique key (duplicate key error).
InsertOne(coll, doc) ==
    IF \E i \in DOMAIN coll : coll[i]._id = doc._id
    THEN Threw(coll)
    ELSE Done(Append(coll, doc))

\* A variant that matches the id alone.
StatusQueryIdOnly(doc, X) == doc.id = X

\* { $or: [ { id: X }, { meta_msg_id: X } ] }
StatusQuery(doc, X) == doc.id = X \/ doc.meta_msg_id = X

\* A variant that upserts: with no match it inserts a record for the id.
ServerUpsertStatus(coll, status) ==
    LET Hit(doc) == doc.id = status.id \/ doc.meta_msg_id = status.id
        i == FirstIndex({j \in DOMAIN coll : Hit(coll[j])})
    IN  IF i = 0
        THEN Done(Append(coll, [_id |-> <<"msg", status.id>>, id |-> status.id,
                                meta_msg_id |-> Undef, from |-> Undef, to |-> Undef,
                                text |-> Undef, timestamp |-> NoNumber, type |-> Undef,
                                status |-> status.status, wa_id |-> Undef,
                                profile_name |-> Undef, status_timestamp |-> NoNumber]))
        ELSE Done([coll EXCEPT ![i].status = status.status])

\* A variant that updates every match: updateMany.
ServerUpdateMany(coll, status) ==
    Done([j \in DOMAIN coll |->
            IF StatusQuery(coll[j], status.id)
            THEN [coll[j] EXCEPT !.status = status.status]
            ELSE coll[j]])

\* The server's updateOne(updateQuery, { $set: { status } }).
ServerUpdateStatus(coll, status) ==
    LET Hit(doc) == StatusQuery(doc, status.id)
        i == FirstIndex({j \in DOMAIN coll : Hit(coll[j])})
    IN  IF i = 0 THEN Done(coll)
        ELSE Done([coll EXCEPT ![i].status = status.status])

\* The replay script's updateOne(..., { $set: { status, status_timestamp } }).
ReplayUpdateStatus(coll, status) ==
    LET Hit(doc) == StatusQuery(doc, status.id)
        i == FirstIndex({j \in DOMAIN coll : Hit(coll[j])})
    IN  IF i = 0 THEN Done(coll)
        ELSE Done([coll EXCEPT
                    ![i].status = status.status,
                    ![i].status_timestamp =
                        Times(ParseInt(status.timestamp), MsPerSecond)])

\* The in-memory branch: findIndex, then assign the status.
MemFindIndex(store, X) ==
    LET Hit(msg) == msg.id = X \/ msg.meta_msg_id = X
    IN  FirstIndex({j \in DOMAIN store : Hit(store[j])})

\* A variant that also overwrites the record's timestamp.
MemUpdateStatusAndTime(store, status) ==
    LET Hit(msg) == msg.id = status.id \/ msg.meta_msg_id = status.id
        i == FirstIndex({j \in DOMAIN store : Hit(store[j])})
    IN  IF i # 0
        THEN [store EXCEPT ![i].status = status.status,
                           ![i].timestamp = Times(ParseInt(status.timestamp), MsPerSecond)]
        ELSE store

MemUpdateStatus(store, status) ==
    LET i == MemFindIndex(store, status.id)
    IN  IF i # 0 THEN [store EXCEPT ![i].status = status.status] ELSE store

\* The replay script's updateOne({ id }, { $set: processedMessage },
\* { upsert: true }): the fields of processedMessage are set, any other field
\* of a matched record is kept, and _id cannot be changed.
UpsertMessage(coll, doc) ==
    LET Hit(d) == d.id = doc.id
        i == FirstIndex({j \in DOMAIN coll : Hit(coll[j])})
    IN  IF i = 0 THEN InsertOne(coll, doc)
        ELSE IF coll[i]._id # doc._id THEN Threw(coll)
        ELSE Done([coll EXCEPT
                    ![i] = [doc EXCEPT
                             !.status_timestamp = coll[i].status_timestamp]])

ContactName(contact) == OrElse(contact.profile.name, contact.wa_id)

\* updateOne({ wa_id }, { $set: { profile_name, wa_id } }, { upsert: true });
\* the replay script also sets updated_at.
UpsertContact(coll, contact, stamp) ==
    LET Hit(c) == c.wa_id = contact.wa_id
        i == FirstIndex({j \in DOMAIN coll : Hit(coll[j])})
    IN  IF i = 0
        THEN Append(coll, [wa_id |-> contact.wa_id,
                           profile_name |-> ContactName(contact),
                           unreadCount |-> None,
                           updated_at |-> stamp])
        ELSE [coll EXCEPT ![i].profile_name = ContactName(contact),
                          ![i].updated_at =
                              IF stamp = Undef THEN coll[i].updated_at ELSE stamp]

\* A variant that pushes without looking.
MemPushContact(store, contact) ==
    Append(store, [wa_id |-> contact.wa_id,
                   profile_name |-> ContactName(contact),
                   unreadCount |-> Some(0),
                   updated_at |-> Undef])

\* The in-memory branch: find, and push only when there is none.
MemUpsertContact(store, contact) ==
    LET existingContact == \E i \in DOMAIN store : store[i].wa_id = contact.wa_id
    IN  IF ~existingContact
        THEN Append(store, [wa_id |-> contact.wa_id,
                            profile_name |-> ContactName(contact),
                            unreadCount |-> Some(0),
                            updated_at |-> Undef])
        ELSE store


(***************************************************************************)
(* The envelope guard shared by POST /webhook and processWebhookPayload.   *)
(***************************************************************************)
\* A variant that does not look at changes.field.
ExtractAnyField(payload) ==
    IF ~IsSome(payload.entry) \/ Get(payload.entry) = <<>>
    THEN [outcome |-> "skip", value |-> None]
    ELSE LET entry0 == Get(payload.entry)[1]
         IN  IF ~IsSome(entry0.changes)
             THEN [outcome |-> "skip", value |-> None]
             ELSE IF Get(entry0.changes) = <<>>
             THEN [outcome |-> "throw", value |-> None]
             ELSE LET changes == Get(entry0.changes)[1]
                  IN  IF IsSome(changes.value)
                      THEN [outcome |-> "value", value |-> changes.value]
                      ELSE [outcome |-> "skip", value |-> None]

\* payload.entry && payload.entry[0] && payload.entry[0].changes, then
\* changes = payload.entry[0].changes[0] and changes.field, changes.value.
\* An empty changes array is truthy and its element 0 is undefined, so reading
\* changes.field throws.
Extract(payload) ==
    IF ~IsSome(payload.entry) \/ Get(payload.entry) = <<>>
    THEN [outcome |-> "skip", value |-> None]
    ELSE LET entry0 == Get(payload.entry)[1]
         IN  IF ~IsSome(entry0.changes)
             THEN [outcome |-> "skip", value |-> None]
             ELSE IF Get(entry0.changes) = <<>>
             THEN [outcome |-> "throw", value |-> None]
             ELSE LET changes == Get(entry0.changes)[1]
                  IN  IF changes.field = "messages" /\ IsSome(changes.value)
                      THEN [outcome |-> "value", value |-> changes.value]
                      ELSE [outcome |-> "skip", value |-> None]

(***************************************************************************)
(* One sub-event of a payload: the code between two awaits.                *)
(* durable is the handler's `if (db)`; fault says the persistence call      *)
(* throws (the store became unreachable).                                  *)
(***************************************************************************)
Result(msgs, cts, emit, threw) ==
    [messages |-> msgs, contacts |-> cts, emit |-> emit, threw |-> threw]

\* A variant that emits before it stores.
WebhookMessageEmitFirst(durable, msgs, cts, value, message, fault) ==
    LET processedMessage == ServerProcessedMessage(message, value)
    IN  IF durable
        THEN LET r == InsertOne(msgs, processedMessage)
             IN  IF fault \/ r.threw
                 THEN Result(msgs, cts, <<NewMessageEvent(processedMessage)>>, TRUE)
                 ELSE Result(r.coll, cts, <<NewMessageEvent(processedMessage)>>, FALSE)
        ELSE Result(Append(msgs, processedMessage), cts,
                    <<NewMessageEvent(processedMessage)>>, FALSE)

\* POST /webhook, one element of messages.
WebhookMessage(durable, msgs, cts, value, message, fault) ==
    LET processedMessage == ServerProcessedMessage(message, value)
    IN  IF durable
        THEN LET r == InsertOne(msgs, processedMessage)
             IN  IF fault \/ r.threw
                 THEN Result(msgs, cts, <<>>, TRUE)
                 ELSE Result(r.coll, cts, <<NewMessageEvent(processedMessage)>>, FALSE)
        ELSE Result(Append(msgs, processedMessage), cts,
                    <<NewMessageEvent(processedMessage)>>, FALSE)

\* A variant that emits only when a stored message matched.
WebhookStatusIfMatched(durable, msgs, cts, status, fault) ==
    LET matched == \E i \in DOMAIN msgs : StatusQuery(msgs[i], status.id)
        emit == IF matched THEN <<StatusUpdateEvent(status)>> ELSE <<>>
    IN  IF durable
        THEN IF fault
             THEN Result(msgs, cts, <<>>, TRUE)
             ELSE Result(ServerUpdateStatus(msgs, status).coll, cts, emit, FALSE)
        ELSE Result(MemUpdateStatus(msgs, status), cts, emit, FALSE)

\* POST /webhook, one element of statuses.
WebhookStatus(durable, msgs, cts, status, fault) ==
    IF durable
    THEN IF fault
         THEN Result(msgs, cts, <<>>, TRUE)
         ELSE Result(ServerUpdateStatus(msgs, status).coll, cts,
                     <<StatusUpdateEvent(status)>>, FALSE)
    ELSE Result(MemUpdateStatus(msgs, status), cts,
                <<StatusUpdateEvent(status)>>, FALSE)

\* A variant that broadcasts the contact.
WebhookContactEmitting(durable, msgs, cts, contact, fault) ==
    IF durable
    THEN IF fault
         THEN Result(msgs, cts, <<>>, TRUE)
         ELSE Result(msgs, UpsertContact(cts, contact, Undef),
                     <<[event |-> "contactUpdate", message |-> None,
                        messageId |-> Undef, status |-> Undef]>>, FALSE)
    ELSE Result(msgs, MemUpsertContact(cts, contact),
                <<[event |-> "contactUpdate", message |-> None,
                   messageId |-> Undef, status |-> Undef]>>, FALSE)

\* POST /webhook, one element of contacts.
WebhookContact(durable, msgs, cts, contact, fault) ==
    IF durable
    THEN IF fault
         THEN Result(msgs, cts, <<>>, TRUE)
         ELSE Result(msgs, UpsertContact(cts, contact, Undef), <<>>, FALSE)
    ELSE Result(msgs, MemUpsertContact(cts, contact), <<>>, FALSE)

\* processWebhookPayload, one element of messages, statuses, contacts.
ReplayMessage(msgs, cts, value, message, fault) ==
    LET r == UpsertMessage(msgs, ReplayProcessedMessage(message, value))
    IN  IF fault \/ r.threw
        THEN Result(msgs, cts, <<>>, TRUE)
        ELSE Result(r.coll, cts, <<>>, FALSE)

ReplayStatus(msgs, cts, status, fault) ==
    IF fault
    THEN Result(msgs, cts, <<>>, TRUE)
    ELSE Result(ReplayUpdateStatus(msgs, status).coll, cts, <<>>, FALSE)

ReplayContact(msgs, cts, contact, fault) ==
    IF fault
    THEN Result(msgs, cts, <<>>, TRUE)
    ELSE Result(msgs, UpsertContact(cts, contact, "now"), <<>>, FALSE)

(***************************************************************************)
(* The position of a handler in its payload: messages, then statuses,     *)
(* then contacts, each list in order.                                      *)
(***************************************************************************)
Finished == [phase |-> "done", i |-> 0]

\* const { messages, statuses, contacts } = changes.value; if (messages) ...
Items(value, phase) ==
    IF IsSome(value[phase]) THEN Get(value[phase]) ELSE <<>>

NextPhase(phase) ==
    CASE phase = "messages" -> "statuses"
      [] phase = "statuses" -> "contacts"
      [] phase = "contacts" -> "done"

RECURSIVE FirstPos(_, _)
FirstPos(value, phase) ==
    IF phase = "done" THEN Finished
    ELSE IF Len(Items(value, phase)) > 0 THEN [phase |-> phase, i |-> 1]
    ELSE FirstPos(value, NextPhase(phase))

\* A variant that goes from the messages straight to the contacts.
NextPosPastStatuses(value, pos) ==
    IF pos.i < Len(Items(value, pos.phase))
    THEN [pos EXCEPT !.i = @ + 1]
    ELSE FirstPos(value, IF pos.phase = "messages" THEN "contacts"
                         ELSE NextPhase(pos.phase))

NextPos(value, pos) ==
    IF pos.i < Len(Items(value, pos.phase))
    THEN [pos EXCEPT !.i = @ + 1]
    ELSE FirstPos(value, NextPhase(pos.phase))

\* The sub-event at pos, applied by the handler of the given kind.  Reading
\* message.id, status.id or contact.wa_id of null throws a TypeError, before
\* any persistence call.
ApplyItem(kind, durable, msgs, cts, value, pos, fault) ==
    LET item == Items(value, pos.phase)[pos.i]
    IN  IF IsNull(item)
        THEN Result(msgs, cts, <<>>, TRUE)
        ELSE IF kind = "webhook"
        THEN CASE pos.phase = "messages" ->
                    WebhookMessage(durable, msgs, cts, value, item, fault)
               [] pos.phase = "statuses" ->
                    WebhookStatus(durable, msgs, cts, item, fault)
               [] pos.phase = "contacts" ->
                    WebhookContact(durable, msgs, cts, item, fault)
        ELSE CASE pos.phase = "messages" ->
                    ReplayMessage(msgs, cts, value, item, fault)
               [] pos.phase = "statuses" ->
                    ReplayStatus(msgs, cts, item, fault)
               [] pos.phase = "contacts" ->
                    ReplayContact(msgs, cts, item, fault)

\* A handler run from pos to its end with nothing interleaved and no fault:
\* the in-memory branch has no await, so this is how it always runs.
RECURSIVE RunFrom(_, _, _, _, _, _, _)
RunFrom(kind, durable, msgs, cts, value, pos, emitted) ==
    IF pos.phase = "done"
    THEN [messages |-> msgs, contacts |-> cts, emitted |-> emitted, threw |-> FALSE]
    ELSE LET r == ApplyItem(kind, durable, msgs, cts, value, pos, FALSE)
         IN  IF r.threw
             THEN [messages |-> r.messages, contacts |-> r.contacts,
                   emitted |-> emitted, threw |-> TRUE]
             ELSE RunFrom(kind, durable, r.messages, r.contacts, value,
                          NextPos(value, pos), emitted \o r.emit)


(***************************************************************************)
(* The state after startServer().                                          *)
(***************************************************************************)
SeedContacts ==
    <<[wa_id |-> SeededWaId, profile_name |-> "John Doe",
       unreadCount |-> Some(2), updated_at |-> Undef],
      [wa_id |-> "0987654321", profile_name |-> "Jane Smith",
       unreadCount |-> Some(0), updated_at |-> Undef],
      [wa_id |-> "5555555555", profile_name |-> "Mike Johnson",
       unreadCount |-> Some(1), updated_at |-> Undef]>>

(***************************************************************************)
(* The realtime channel.  A client is a browser running App.tsx: its       *)
(* socket (connected or not, and the rooms the server has put it in) and   *)
(* the messages, contacts and selectedContact state of the component (of a *)
(* contact, the wa_id and the unreadCount).  An emitted event reaches a    *)
(* connected socket at once and in order; a socket that is not connected   *)
(* misses it.                                                              *)
(***************************************************************************)
ClientIds == {"c1", "c2"}

NoClients ==
    [c \in ClientIds |->
        [connected |-> FALSE, rooms |-> {}, messages |-> <<>>,
         contacts |-> <<>>, selected |-> None]]

\* msg._id === update.messageId: two strings; the _id `msg_${x}` is the
\* tuple <<"msg", x>> and a plain string x compares as <<x>>.
SameString(_id, str) == _id = <<str>>

\* socket.on('newMessage', ...) and socket.on('messageStatusUpdate', ...)
OnEvent(messages, event) ==
    IF event.event = "newMessage"
    THEN Append(messages, event.message)
    ELSE [i \in DOMAIN messages |->
            IF SameString(messages[i]._id, event.messageId)
            THEN [messages[i] EXCEPT !.status = event.status]
            ELSE messages[i]]

RECURSIVE OnEvents(_, _)
OnEvents(messages, events) ==
    IF events = <<>> THEN messages
    ELSE OnEvents(OnEvent(messages, Head(events)), Tail(events))

\* updateContactLastMessage(message)
UpdateContactLastMessage(contacts, message) ==
    [i \in DOMAIN contacts |->
        IF contacts[i].wa_id = message.wa_id
        THEN [contacts[i] EXCEPT !.unreadCount =
                 IF message.from # "me" THEN @ + 1 ELSE @]
        ELSE contacts[i]]

\* The contacts state after the handlers of the events have run.
RECURSIVE ContactsOnEvents(_, _)
ContactsOnEvents(contacts, events) ==
    IF events = <<>> THEN contacts
    ELSE ContactsOnEvents(
            IF Head(events).event = "newMessage"
            THEN UpdateContactLastMessage(contacts, Head(events).message)
            ELSE contacts,
            Tail(events))

\* A variant that sends a newMessage only to the sockets in the room of its
\* conversation: io.to(`chat-${wa_id}`).emit(...).
BroadcastToRooms(cl, events) ==
    [c \in ClientIds |->
        LET InRoom(e) == e.event = "newMessage" => e.message.wa_id \in cl[c].rooms
        IN  IF cl[c].connected
            THEN [cl[c] EXCEPT
                    !.messages = OnEvents(@, SelectSeq(events, InRoom)),
                    !.contacts = ContactsOnEvents(@, SelectSeq(events, InRoom))]
            ELSE cl[c]]

\* io.emit(...): to every connected socket, whatever rooms it is in.
Broadcast(cl, events) ==
    [c \in ClientIds |->
        IF cl[c].connected
        THEN [cl[c] EXCEPT
                !.messages = OnEvents(@, events),
                !.contacts = ContactsOnEvents(@, events)]
        ELSE cl[c]]

\* What a handler sends back: res.json(...) or res.send(...).
NoBody == [sent |-> FALSE]
SuccessBody == [success |-> TRUE]
ErrorBody(kind) ==
    [error |-> CASE kind = "api" -> "Failed to save message"
                 [] kind = "contacts" -> "Failed to fetch contacts"
                 [] kind = "messages" -> "Failed to fetch messages"
                 [] OTHER -> "Webhook processing failed"]

NoRun ==
    [kind |-> "none", payload |-> [entry |-> None], code |-> 0,
     emitted |-> <<>>, threw |-> FALSE, body |-> NoBody]

Init ==
    /\ db \in BOOLEAN               \* connectToDatabase: connected, or null
    /\ messagesStore = <<>>
    /\ contactsStore = SeedContacts
    /\ processed_messages = <<>>    \* a fresh database
    /\ contactsColl = <<>>
    /\ inflight = <<>>
    /\ last = NoRun
    /\ nreq = 0
    /\ nfault = 0
    /\ clients = NoClients         \* no socket has connected yet

\* The store the server reads and writes.
Messages == IF db THEN processed_messages ELSE messagesStore
Contacts == IF db THEN contactsColl ELSE contactsStore

SetStores(msgs, cts) ==
    IF db
    THEN /\ processed_messages' = msgs
         /\ contactsColl' = cts
         /\ UNCHANGED <<messagesStore, contactsStore>>
    ELSE /\ messagesStore' = msgs
         /\ contactsStore' = cts
         /\ UNCHANGED <<processed_messages, contactsColl>>

Remove(seq, k) == SubSeq(seq, 1, k - 1) \o SubSeq(seq, k + 1, Len(seq))

\* What a finished run leaves to be observed: the response code (0 for the
\* replay script, which answers nobody) and the realtime events it emitted.
Finish(kind, payload, code, emitted, threw) ==
    [kind |-> kind, payload |-> payload, code |-> code,
     emitted |-> emitted, threw |-> threw,
     body |-> IF kind = "replay" THEN NoBody
              ELSE IF threw THEN ErrorBody(kind) ELSE SuccessBody]

\* A variant whose catch block answers as the try block does.
ResponseCodeSuccess(kind, threw) == IF kind = "replay" THEN 0 ELSE 200

ResponseCode(kind, threw) ==
    IF kind = "replay" THEN 0 ELSE IF threw THEN 500 ELSE 200

(***************************************************************************)
(* A handler starts: POST /webhook arrives, or the replay script reads a   *)
(* payload file.  The code up to the first await runs at once; with        *)
(* db = null there is no await and the whole handler runs.                 *)
(***************************************************************************)
Start(kind, payload) ==
    LET x == Extract(payload)
        value == Get(x.value)
        pos == FirstPos(value, "messages")
    IN  /\ nreq < MaxRequests
        /\ nreq' = nreq + 1
        /\ UNCHANGED nfault
        /\ IF x.outcome # "value"
           THEN /\ last' = Finish(kind, payload,
                                  ResponseCode(kind, x.outcome = "throw"),
                                  <<>>, x.outcome = "throw")
                /\ UNCHANGED <<messagesStore, contactsStore, processed_messages,
                               contactsColl, inflight, clients>>
           ELSE IF db /\ pos # Finished
           THEN /\ inflight' = Append(inflight,
                        [kind |-> kind, payload |-> payload, value |-> value,
                         pos |-> pos, emitted |-> <<>>])
                /\ UNCHANGED <<messagesStore, contactsStore, processed_messages,
                               contactsColl, last, clients>>
           ELSE LET r == RunFrom(kind, db, Messages, Contacts, value, pos, <<>>)
                IN  /\ SetStores(r.messages, r.contacts)
                    /\ last' = Finish(kind, payload, ResponseCode(kind, r.threw),
                                      r.emitted, r.threw)
                    /\ clients' = Broadcast(clients, r.emitted)
                    /\ UNCHANGED inflight

\* app.post('/webhook')
WebhookPost(payload) ==
    /\ Start("webhook", payload)
    /\ UNCHANGED db

\* WebhookProcessor.processPayloadFile -> processWebhookPayload.  connect()
\* throws when the database is unreachable, and then nothing is replayed.
ReplayFile(payload) ==
    /\ db
    /\ Start("replay", payload)
    /\ UNCHANGED db

(***************************************************************************)
(* The awaited persistence call of the k-th suspended handler completes   *)
(* (or throws), and the handler runs on to its next await or to its end.   *)
(***************************************************************************)
Resume(k, fault) ==
    LET req == inflight[k]
        r == ApplyItem(req.kind, TRUE, processed_messages, contactsColl,
                       req.value, req.pos, fault)
        pos == NextPos(req.value, req.pos)
        emitted == req.emitted \o r.emit
    IN  /\ db
        /\ fault => nfault < MaxFaults
        /\ fault => ~IsNull(Items(req.value, req.pos.phase)[req.pos.i])
        /\ nfault' = IF fault THEN nfault + 1 ELSE nfault
        /\ SetStores(r.messages, r.contacts)
        /\ IF r.threw \/ pos = Finished
           THEN /\ inflight' = Remove(inflight, k)
                /\ last' = Finish(req.kind, req.payload,
                                  ResponseCode(req.kind, r.threw), emitted, r.threw)
           ELSE /\ inflight' = [inflight EXCEPT ![k].pos = pos,
                                                ![k].emitted = emitted]
                /\ UNCHANGED last
        /\ clients' = Broadcast(clients, r.emit)
        /\ UNCHANGED <<db, nreq>>

(***************************************************************************)
(* app.post('/api/messages'): one persistence call, then the broadcast.    *)
(***************************************************************************)
ApiPostMessage(body, now, fault) ==
    LET message == ApiMessage(body, now, Len(Messages) + 1)
        r == IF db THEN InsertOne(Messages, message)
                   ELSE Done(Append(Messages, message))
        threw == fault \/ r.threw
    IN  /\ nreq < MaxRequests
        /\ nreq' = nreq + 1
        /\ fault => db /\ nfault < MaxFaults
        /\ nfault' = IF fault THEN nfault + 1 ELSE nfault
        /\ SetStores(IF threw THEN Messages ELSE r.coll, Contacts)
        /\ last' = IF threw
                   THEN Finish("api", body, 500, <<>>, TRUE)
                   ELSE [Finish("api", body, 201, <<NewMessageEvent(message)>>, FALSE)
                            EXCEPT !.body = message]
        /\ clients' = Broadcast(clients, last'.emitted)
        /\ UNCHANGED <<db, inflight>>

NextOver(payloads, files, bodies) ==
    \/ \E payload \in payloads : WebhookPost(payload)
    \/ \E payload \in files : ReplayFile(payload)
    \/ \E k \in DOMAIN inflight, fault \in BOOLEAN : Resume(k, fault)
    \/ \E body \in bodies, now \in NowValues, fault \in BOOLEAN :
            ApiPostMessage(body, now, fault)

(***************************************************************************)
(* Spec: deliveries of single sub-events, in any interleaving.             *)
(***************************************************************************)
Payloads ==
    WellFormed(ValuesOf(Singles(MessageEvents(MsgIds, WaIds, {SampleTimestamp})),
                        Singles(StatusEvents(MsgIds, {"read"})),
                        Singles(ContactDescs(WaIds, Names))))
    \cup MalformedPayloads

PayloadFiles ==
    WellFormed(ValuesOf(Singles(MessageEvents({"m1"}, WaIds, {StatusTimestamp})),
                        Singles(StatusEvents(MsgIds, {"delivered"})),
                        Singles(ContactDescs({"w2"}, Names))))
    \cup {[entry |-> Some(<<[changes |-> Some(<<>>)]>>)]}

Next == NextOver(Payloads, PayloadFiles, ApiBodies)

Spec == Init /\ [][Next]_vars

(***************************************************************************)
(* SpecBatch: deliveries whose lists hold several sub-events.              *)
(***************************************************************************)
BatchPayloads ==
    WellFormed(ValuesOf(SeqsUpTo(MessageEvents(MsgIds, {"w2"}, {SampleTimestamp}),
                                 MaxMsgs),
                        SeqsUpTo(StatusEvents(MsgIds, {"read"}), MaxStatuses),
                        SeqsUpTo(ContactDescs({"w2"}, {"Ann"}), MaxContacts)))

BatchFiles ==
    WellFormed(ValuesOf(Singles(MessageEvents({"m1"}, {"w2"}, {StatusTimestamp})),
                        Singles(StatusEvents({"m2"}, {"delivered"})),
                        {}))

BatchBodies == {body \in ApiBodies : body.id = Undef /\ body.meta_msg_id = Undef}

NextBatch == NextOver(BatchPayloads, BatchFiles, BatchBodies)

SpecBatch == Init /\ [][NextBatch]_vars

(***************************************************************************)
(* SpecLoose: deliveries whose messages and statuses may lack their id.    *)
(***************************************************************************)
LooseIds == {"m1", Undef}

LoosePayloads ==
    WellFormed(ValuesOf(SeqsUpTo(MessageEvents(LooseIds, {"w2"}, {SampleTimestamp}),
                                 MaxMsgs),
                        Singles(StatusEvents(LooseIds, {"read"})),
                        Singles(ContactDescs({"w2"}, {"Ann"}))))

NextLoose == NextOver(LoosePayloads, BatchFiles, BatchBodies)

SpecLoose == Init /\ [][NextLoose]_vars

(***************************************************************************)
(* SpecNull: deliveries whose lists may hold a null in place of a          *)
(* sub-event.                                                              *)
(***************************************************************************)
NullPayloads ==
    WellFormed(ValuesOf(
        SeqsUpTo(MessageEvents({"m1"}, {"w2"}, {SampleTimestamp}) \cup {Null},
                 MaxMsgs),
        Singles(StatusEvents({"m1"}, {"read"}) \cup {Null}),
        Singles(ContactDescs({"w2"}, {"Ann"}) \cup {Null})))

NextNull == NextOver(NullPayloads, NullPayloads, BatchBodies)

SpecNull == Init /\ [][NextNull]_vars

(***************************************************************************)
(* SpecLate: deliveries that each carry the one message m1 or the one      *)
(* status event for it, in any order.                                      *)
(***************************************************************************)
LatePayloads ==
    WellFormed(ValuesOf(Singles(MessageEvents({"m1"}, {"w2"}, {SampleTimestamp})),
                        {}, {})
               \cup ValuesOf({}, Singles(StatusEvents({"m1"}, StatusValues)), {}))
        \ WellFormed(ValuesOf({}, {}, {}))

NextLate == NextOver(LatePayloads, BatchFiles, BatchBodies)

SpecLate == Init /\ [][NextLate]_vars

(***************************************************************************)
(* SpecApi: POST /api/messages with bodies that bring their own timestamp  *)
(* and _id, among deliveries and replays that touch the same records.      *)
(***************************************************************************)
ClientTimestamp == <<4, 2>>

ClientBodies ==
    {[body EXCEPT !.timestamp = t] :
        body \in ApiBodies, t \in {NoNumber, ClientTimestamp}}

ApiPayloads ==
    WellFormed(ValuesOf(Singles(MessageEvents({"m1"}, {"w2"}, {SampleTimestamp})),
                        Singles(StatusEvents(MsgIds, {"read"})),
                        {}))

NextApi == NextOver(ApiPayloads, BatchFiles, ClientBodies)

SpecApi == Init /\ [][NextApi]_vars

(***************************************************************************)
(* SpecEq: two deployments of the server, one that connected to MongoDB    *)
(* (it works on processed_messages and contactsColl) and one that did not  *)
(* (it works on messagesStore and contactsStore), are sent the same        *)
(* requests one after the other, each request handled to its end by both.  *)
(***************************************************************************)
\* app.get('/api/messages/:wa_id') sorts what find returns by timestamp;
\* records of equal timestamp are left in their stored order.
RECURSIVE InsertByTimestamp(_, _)
InsertByTimestamp(sorted, doc) ==
    IF sorted = <<>> THEN <<doc>>
    ELSE IF NumLess(doc.timestamp, sorted[1].timestamp)
    THEN <<doc>> \o sorted
    ELSE <<sorted[1]>> \o InsertByTimestamp(Tail(sorted), doc)

RECURSIVE SortByTimestamp(_)
SortByTimestamp(docs) ==
    IF docs = <<>> THEN <<>>
    ELSE InsertByTimestamp(SortByTimestamp(SubSeq(docs, 1, Len(docs) - 1)),
                           docs[Len(docs)])

\* app.get('/api/messages/:wa_id')
GetMessages(durable, msgs, wa_id) ==
    LET Hit(msg) == msg.wa_id = wa_id
    IN  IF durable THEN SortByTimestamp(SelectSeq(msgs, Hit))
        ELSE SelectSeq(msgs, Hit)

\* app.get('/api/contacts')
GetContacts(durable, cts) == cts

InitEq == Init /\ db

BothWebhookPost(payload) ==
    LET x == Extract(payload)
        value == Get(x.value)
        pos == FirstPos(value, "messages")
        d == RunFrom("webhook", TRUE, processed_messages, contactsColl,
                     value, pos, <<>>)
        m == RunFrom("webhook", FALSE, messagesStore, contactsStore,
                     value, pos, <<>>)
    IN  /\ nreq < MaxRequests
        /\ nreq' = nreq + 1
        /\ IF x.outcome # "value"
           THEN /\ last' = Finish("webhook", payload,
                                  ResponseCode("webhook", x.outcome = "throw"),
                                  <<>>, x.outcome = "throw")
                /\ UNCHANGED <<messagesStore, contactsStore, processed_messages,
                               contactsColl>>
           ELSE /\ processed_messages' = d.messages
                /\ contactsColl' = d.contacts
                /\ messagesStore' = m.messages
                /\ contactsStore' = m.contacts
                /\ last' = Finish("webhook", payload,
                                  ResponseCode("webhook", d.threw),
                                  d.emitted, d.threw)
        /\ UNCHANGED <<db, inflight, nfault, clients>>

BothApiPostMessage(body, now) ==
    LET dmessage == ApiMessage(body, now, Len(processed_messages) + 1)
        mmessage == ApiMessage(body, now, Len(messagesStore) + 1)
        r == InsertOne(processed_messages, dmessage)
    IN  /\ nreq < MaxRequests
        /\ nreq' = nreq + 1
        /\ processed_messages' = r.coll
        /\ messagesStore' = Append(messagesStore, mmessage)
        /\ last' = IF r.threw
                   THEN Finish("api", body, 500, <<>>, TRUE)
                   ELSE [Finish("api", body, 201, <<NewMessageEvent(dmessage)>>, FALSE)
                            EXCEPT !.body = dmessage]
        /\ UNCHANGED <<db, inflight, nfault, contactsStore, contactsColl, clients>>

NextEq ==
    \/ \E payload \in Payloads : BothWebhookPost(payload)
    \/ \E body \in ApiBodies, now \in NowValues : BothApiPostMessage(body, now)

SpecEq == InitEq /\ [][NextEq]_vars


(***************************************************************************)
(* SpecRest: the read routes as requests of their own, among deliveries,   *)
(* replays and posts.  With db set a read awaits find(...).toArray(),      *)
(* which may throw; with db = null it reads the array.                     *)
(***************************************************************************)
\* What a read route finished with: the query it answered and its answer.
Answer(kind, query, list, threw) ==
    [Finish(kind, query, IF threw THEN 500 ELSE 200, <<>>, threw)
        EXCEPT !.body = IF threw THEN ErrorBody(kind) ELSE [json |-> list]]

ReadRoute(kind, query, list, fault) ==
    /\ nreq < MaxRequests
    /\ nreq' = nreq + 1
    /\ fault => db /\ nfault < MaxFaults
    /\ nfault' = IF fault THEN nfault + 1 ELSE nfault
    /\ last' = Answer(kind, query, list, fault)
    /\ UNCHANGED <<db, messagesStore, contactsStore, processed_messages,
                   contactsColl, inflight, clients>>

\* app.get('/api/contacts')
ApiGetContacts(fault) ==
    ReadRoute("contacts", [wa_id |-> Undef], GetContacts(db, Contacts), fault)

\* app.get('/api/messages/:wa_id')
ApiGetMessages(wa_id, fault) ==
    ReadRoute("messages", [wa_id |-> wa_id], GetMessages(db, Messages, wa_id), fault)

NextRest ==
    \/ NextOver(ApiPayloads, BatchFiles, BatchBodies)
    \/ \E fault \in BOOLEAN : ApiGetContacts(fault)
    \/ \E wa_id \in WaIds, fault \in BOOLEAN : ApiGetMessages(wa_id, fault)

SpecRest == Init /\ [][NextRest]_vars

(***************************************************************************)
(* SpecVerify: the GET /webhook handshake.  The handler reads the query    *)
(* parameters and process.env.WEBHOOK_VERIFY_TOKEN, and touches no store.  *)
(* A query parameter that is not supplied and an environment variable that *)
(* is not set are both undefined.                                          *)
(***************************************************************************)
VerifyTokens == {Undef, "s3cret"}              \* WEBHOOK_VERIFY_TOKEN
HubModes == {Undef, "subscribe", "unsubscribe"}
HubTokens == {Undef, "s3cret", "guess"}
HubChallenges == {Undef, "c1"}

\* app.get('/webhook')
WebhookVerify(secret, mode, token, challenge) ==
    LET query == [mode |-> mode, token |-> token, challenge |-> challenge,
                  secret |-> secret]
    IN  /\ nreq < MaxRequests
        /\ nreq' = nreq + 1
        /\ last' = IF mode = "subscribe" /\ token = secret
                   THEN [Finish("verify", query, 200, <<>>, FALSE)
                            EXCEPT !.body = [text |-> challenge]]
                   ELSE [Finish("verify", query, 403, <<>>, FALSE)
                            EXCEPT !.body = [text |-> "Forbidden"]]
        /\ UNCHANGED <<db, messagesStore, contactsStore, processed_messages,
                       contactsColl, inflight, nfault, clients>>

NextVerify ==
    \E secret \in VerifyTokens, mode \in HubModes, token \in HubTokens,
       challenge \in HubChallenges :
        WebhookVerify(secret, mode, token, challenge)

SpecVerify == Init /\ [][NextVerify]_vars

(***************************************************************************)
(* SpecSockets: browsers connect, join and leave conversation rooms, load  *)
(* a conversation and disconnect, among deliveries, replays and posts.     *)
(***************************************************************************)
\* io.on('connection', ...): a new socket is in no conversation room.
Connect(c) ==
    /\ ~clients[c].connected
    /\ clients' = [clients EXCEPT ![c].connected = TRUE, ![c].rooms = {}]
    /\ UNCHANGED <<db, messagesStore, contactsStore, processed_messages,
                   contactsColl, inflight, last, nreq, nfault>>

\* socket.on('disconnect', ...): the handler logs; the socket is gone, and
\* with it its rooms.  The page keeps the messages it shows.
Disconnect(c) ==
    /\ clients[c].connected
    /\ clients' = [clients EXCEPT ![c].connected = FALSE, ![c].rooms = {}]
    /\ UNCHANGED <<db, messagesStore, contactsStore, processed_messages,
                   contactsColl, inflight, last, nreq, nfault>>

\* socket.on('join-chat', wa_id => socket.join(`chat-${wa_id}`))
JoinChat(c, wa_id) ==
    /\ clients[c].connected
    /\ clients' = [clients EXCEPT ![c].rooms = @ \cup {wa_id}]
    /\ UNCHANGED <<db, messagesStore, contactsStore, processed_messages,
                   contactsColl, inflight, last, nreq, nfault>>

\* socket.on('leave-chat', wa_id => socket.leave(`chat-${wa_id}`))
LeaveChat(c, wa_id) ==
    /\ clients[c].connected
    /\ clients' = [clients EXCEPT ![c].rooms = @ \ {wa_id}]
    /\ UNCHANGED <<db, messagesStore, contactsStore, processed_messages,
                   contactsColl, inflight, last, nreq, nfault>>

\* The fields loadMessages copies from each record of the response.
MessageFields ==
    {"_id", "id", "from", "to", "text", "timestamp", "type", "status",
     "wa_id", "profile_name"}

\* What loadMessages(wa_id) hands to setMessages when the GET is answered.
Loaded(wa_id) ==
    LET docs == GetMessages(db, Messages, wa_id)
    IN  [i \in DOMAIN docs |-> [f \in MessageFields |-> docs[i][f]]]

\* loadMessages(wa_id): GET /api/messages/:wa_id answered, then setMessages.
LoadMessages(c, wa_id) ==
        /\ clients' = [clients EXCEPT ![c].messages = Loaded(wa_id)]
        /\ UNCHANGED <<db, messagesStore, contactsStore, processed_messages,
                       contactsColl, inflight, last, nreq, nfault>>

NextSockets ==
    \/ NextOver(ApiPayloads, BatchFiles, BatchBodies)
    \/ \E c \in ClientIds : Connect(c)
    \/ \E c \in ClientIds : Disconnect(c)
    \/ \E c \in ClientIds, wa_id \in WaIds : JoinChat(c, wa_id)
    \/ \E c \in ClientIds, wa_id \in WaIds : LeaveChat(c, wa_id)
    \/ \E c \in ClientIds, wa_id \in WaIds : LoadMessages(c, wa_id)

SpecSockets == Init /\ [][NextSockets]_vars

(***************************************************************************)
(* SpecUnread: browsers load the contact list and open conversations,      *)
(* among deliveries, replays and posts.                                    *)
(***************************************************************************)
\* The list loadContacts falls back to when the GET fails.
MockContacts ==
    <<[wa_id |-> "1234567890", unreadCount |-> 2],
      [wa_id |-> "0987654321", unreadCount |-> 0],
      [wa_id |-> "5555555555", unreadCount |-> 1]>>

\* loadContacts(): GET /api/contacts, unreadCount: contact.unreadCount || 0;
\* the mock list when the request fails.
LoadContacts(c, ok) ==
    LET apiContacts == GetContacts(db, Contacts)
    IN  /\ clients[c].contacts = <<>>      \* called once, when App mounts
        /\ clients[c].selected = None
        /\ clients' = [clients EXCEPT ![c].contacts =
                IF ok
                THEN [i \in DOMAIN apiContacts |->
                        [wa_id |-> apiContacts[i].wa_id,
                         unreadCount |->
                            IF IsSome(apiContacts[i].unreadCount)
                            THEN Get(apiContacts[i].unreadCount) ELSE 0]]
                ELSE MockContacts]
        /\ UNCHANGED <<db, messagesStore, contactsStore, processed_messages,
                       contactsColl, inflight, last, nreq, nfault>>

\* handleContactClick(contact): select it, load its messages, mark as read.
HandleContactClick(c, i) ==
    LET contact == clients[c].contacts[i]
    IN  /\ clients' = [clients EXCEPT
                ![c].selected = Some(contact.wa_id),
                ![c].messages = Loaded(contact.wa_id),
                ![c].contacts =
                    [j \in DOMAIN @ |->
                        IF @[j].wa_id = contact.wa_id
                        THEN [@[j] EXCEPT !.unreadCount = 0]
                        ELSE @[j]]]
        /\ UNCHANGED <<db, messagesStore, contactsStore, processed_messages,
                       contactsColl, inflight, last, nreq, nfault>>

UnreadPayloads ==
    WellFormed(ValuesOf(Singles(MessageEvents({"m1"}, WaIds, {SampleTimestamp})),
                        {},
                        Singles(ContactDescs({"w2"}, {"Ann"}))))

Viewers == {"c1"}

NextUnread ==
    \/ NextOver(UnreadPayloads, BatchFiles, BatchBodies)
    \/ \E c \in Viewers : Connect(c)
    \/ \E c \in Viewers, ok \in BOOLEAN : LoadContacts(c, ok)
    \/ \E c \in Viewers : \E i \in DOMAIN clients[c].contacts :
            HandleContactClick(c, i)

SpecUnread == Init /\ [][NextUnread]_vars

(***************************************************************************)
(* The steps the properties speak of.                                      *)
(***************************************************************************)
Range(seq) == {seq[i] : i \in DOMAIN seq}

\* This step is POST /webhook handled with db = null: the whole handler, on
\* the payload that last' records.
MemRun ==
    /\ ~db
    /\ nreq' = nreq + 1
    /\ last'.kind = "webhook"
    /\ WebhookPost(last'.payload)

\* The sub-events of the given list in the payload that MemRun handled.
MemItems(phase) ==
    LET x == Extract(last'.payload)
    IN  IF x.outcome = "value" THEN Items(Get(x.value), phase) ELSE <<>>

\* This step is the k-th suspended handler (of the server or of the replay
\* script) resuming, with db set, after the persistence call for its
\* sub-event of the given list completed without throwing.
DbStep(k, kind, phase) ==
    /\ db
    /\ inflight[k].kind = kind
    /\ inflight[k].pos.phase = phase
    /\ Resume(k, FALSE)

\* The sub-event the k-th suspended handler is at.
ItemAt(k) == Items(inflight[k].value, inflight[k].pos.phase)[inflight[k].pos.i]

\* The sub-events of one list of the payload of the last finished run.
LastItems(phase) ==
    LET x == Extract(last.payload)
    IN  IF x.outcome = "value" THEN Items(Get(x.value), phase) ELSE <<>>

LastWebhookOk == last.kind = "webhook" /\ last.code = 200

\* event.timestamp (decimal seconds) in milliseconds.
Millis(e) == e.timestamp \o <<0, 0, 0>>

\* The fields a message event determines in its record.
BuiltFrom(rec, e) ==
    /\ rec.id = e.id
    /\ rec.from = e.from
    /\ rec.wa_id = e.from
    /\ rec.text = e.text
    /\ rec.type = e.type
    /\ rec.timestamp = Millis(e)

WithId(store, X) == {i \in DOMAIN store : store[i].id = X}

(***************************************************************************)
(* C1.  Applying the same message event (same provider id) a second time   *)
(* through the webhook message step, with db set or with db = null, leaves *)
(* exactly one stored record with that id, and its fields are those of the *)
(* second application.                                                     *)
(***************************************************************************)
AppliedBefore(e) == \E i \in DOMAIN Messages : Messages[i]._id = <<"msg", e.id>>

OneRecordOf(e) ==
    /\ Cardinality(WithId(Messages', e.id)) = 1
    /\ \A i \in WithId(Messages', e.id) : BuiltFrom(Messages'[i], e)

C1_SameEventTwiceOneRecord ==
    [][/\ \A k \in DOMAIN inflight :
             DbStep(k, "webhook", "messages") /\ AppliedBefore(ItemAt(k))
                 => OneRecordOf(ItemAt(k))
       /\ MemRun =>
             \A e \in Range(MemItems("messages")) :
                 AppliedBefore(e) => OneRecordOf(e)]_vars

(***************************************************************************)
(* C2.  No two stored message records share the same id.                   *)
(***************************************************************************)
C2_PrimaryIdUnique ==
    \A i, j \in DOMAIN Messages :
        (i # j /\ Messages[i].id # Undef) => Messages[i].id # Messages[j].id

(***************************************************************************)
(* C3.  A status event with id X that is applied without a failure sets    *)
(* the status of the stored message it matches, whether the match is by    *)
(* id (meta_msg_id differing) or by meta_msg_id (id differing): the first  *)
(* record of the store that has X in either field carries the event's      *)
(* status afterwards.  Server with db set, server with db = null, and the  *)
(* replay script.                                                          *)
(***************************************************************************)
EitherId(rec, X) == rec.id = X \/ rec.meta_msg_id = X

FirstWithEitherId(store, X) ==
    {i \in DOMAIN store :
        EitherId(store[i], X) /\ \A j \in 1..(i - 1) : ~EitherId(store[j], X)}

StatusSet(s) ==
    \A i \in FirstWithEitherId(Messages', s.id) : Messages'[i].status = s.status

C3_StatusMatchesEitherId ==
    [][/\ \A k \in DOMAIN inflight :
             DbStep(k, "webhook", "statuses") \/ DbStep(k, "replay", "statuses")
                 => StatusSet(ItemAt(k))
       /\ MemRun /\ Len(MemItems("statuses")) = 1
             => StatusSet(MemItems("statuses")[1])]_vars

\* A webhook status event has just updated a record that it matches by
\* meta_msg_id only, the record's id being another message id.
C3_Witness ==
    /\ LastWebhookOk
    /\ Len(LastItems("statuses")) = 1
    /\ LET s == LastItems("statuses")[1]
       IN  \E i \in FirstWithEitherId(Messages, s.id) :
              /\ Messages[i].meta_msg_id = s.id
              /\ Messages[i].id \in MsgIds \ {s.id}
              /\ Messages[i].status = s.status

(***************************************************************************)
(* C4.  A status event whose id is in neither field of any stored message  *)
(* leaves every stored message as it was and does not make the handler     *)
(* fail: a webhook request that ends with this step answers 200.           *)
(***************************************************************************)
Unmatched(store, s) == \A i \in DOMAIN store : ~EitherId(store[i], s.id)

\* The handler that took this step did not end in its catch block.
NotThrown == Len(inflight') = Len(inflight) \/ ~last'.threw

C4_UnmatchedStatusNoOp ==
    [][/\ \A k \in DOMAIN inflight :
             /\ DbStep(k, "webhook", "statuses") \/ DbStep(k, "replay", "statuses")
             /\ Unmatched(Messages, ItemAt(k))
             => /\ Messages' = Messages
                /\ NotThrown
                /\ Len(inflight') < Len(inflight) /\ last'.kind = "webhook"
                      => last'.code = 200
       /\ /\ MemRun
          /\ Len(MemItems("statuses")) = 1
          /\ Unmatched(Messages', MemItems("statuses")[1])
          => /\ SubSeq(Messages', 1, Len(Messages)) = Messages
             /\ \A i \in (Len(Messages) + 1)..Len(Messages') :
                    Messages'[i].status = "received"
             /\ last'.code = 200]_vars

\* A webhook delivery of one status event for an id that no stored message
\* has was answered 200, the store holding a message.
C4_Witness ==
    /\ LastWebhookOk
    /\ Messages # <<>>
    /\ LastItems("messages") = <<>>
    /\ Len(LastItems("statuses")) = 1
    /\ Unmatched(Messages, LastItems("statuses")[1])

(***************************************************************************)
(* C5.  When a contact descriptor for wa_id W arrives and a contact for W  *)
(* is stored that an earlier descriptor created (W is not one of the       *)
(* contacts the server starts with), the stored contact for W has the new  *)
(* descriptor's name afterwards.  Server with db set, server with          *)
(* db = null, and the replay script.                                       *)
(***************************************************************************)
SeededWaIds == {SeedContacts[i].wa_id : i \in DOMAIN SeedContacts}

CreatedEarlier(c) ==
    /\ c.wa_id \notin SeededWaIds
    /\ \E i \in DOMAIN Contacts : Contacts[i].wa_id = c.wa_id

LatestName(c) ==
    \A i \in DOMAIN Contacts' :
        Contacts'[i].wa_id = c.wa_id => Contacts'[i].profile_name = c.profile.name

C5_ContactLastWriteWins ==
    [][/\ \A k \in DOMAIN inflight :
             /\ DbStep(k, "webhook", "contacts") \/ DbStep(k, "replay", "contacts")
             /\ CreatedEarlier(ItemAt(k))
             => LatestName(ItemAt(k))
       /\ MemRun =>
             \A c \in Range(MemItems("contacts")) :
                 CreatedEarlier(c) => LatestName(c)]_vars

(***************************************************************************)
(* C6.  At most one contact record per wa_id, in the in-memory list and in *)
(* the contacts collection, in every reachable state.                      *)
(***************************************************************************)
UniqueWaId(store) ==
    \A i, j \in DOMAIN store : store[i].wa_id = store[j].wa_id => i = j

C6_OneContactPerWaId == UniqueWaId(contactsStore) /\ UniqueWaId(contactsColl)

\* A webhook delivery carried a descriptor for a wa_id whose contact was
\* stored before it: the stored name is not the descriptor's.
C6_Witness ==
    /\ LastWebhookOk
    /\ \E c \in Range(LastItems("contacts")) :
          \E i \in DOMAIN Contacts :
              /\ Contacts[i].wa_id = c.wa_id
              /\ Contacts[i].profile_name # c.profile.name

(***************************************************************************)
(* C7.  A record written by a message step has timestamp equal to the      *)
(* event's timestamp (seconds, decimal) times 1000: a record the server    *)
(* appends or inserts, and a record the replay script inserts or replaces. *)
(* "1625097600" is stored as 1625097600000.                                *)
(***************************************************************************)
Written(i) == i > Len(Messages) \/ Messages'[i] # Messages[i]

C7_TimestampInMilliseconds ==
    [][/\ \A k \in DOMAIN inflight :
             DbStep(k, "webhook", "messages") \/ DbStep(k, "replay", "messages")
                 => \A i \in DOMAIN Messages' :
                        Written(i) => Messages'[i].timestamp = Millis(ItemAt(k))
       /\ MemRun /\ Len(MemItems("messages")) = 1
             => \A i \in (Len(Messages) + 1)..Len(Messages') :
                    Messages'[i].timestamp = Millis(MemItems("messages")[1])]_vars

\* The message event of "1625097600" has been delivered and its record
\* holds 1625097600000.
C7_Witness ==
    /\ LastWebhookOk
    /\ Len(LastItems("messages")) = 1
    /\ LET e == LastItems("messages")[1]
       IN  /\ e.timestamp = <<1, 6, 2, 5, 0, 9, 7, 6, 0, 0>>
           /\ \E i \in DOMAIN Messages :
                 /\ Messages[i]._id = <<"msg", e.id>>
                 /\ Messages[i].timestamp = <<1, 6, 2, 5, 0, 9, 7, 6, 0, 0, 0, 0, 0>>

(***************************************************************************)
(* C8.  The realtime events of one POST /webhook are, in the order they    *)
(* were emitted: newMessage for each element of messages in list order,    *)
(* then messageStatusUpdate for each element of statuses in list order,    *)
(* and nothing for contacts.  A handler that failed (it answers 500)       *)
(* emitted a prefix of that.  2 messages and 1 status: newMessage,         *)
(* newMessage, messageStatusUpdate.                                        *)
(***************************************************************************)
Sketch(event) ==
    <<event.event,
      IF event.event = "newMessage" THEN event.message.id ELSE event.messageId>>

ExpectedSketches ==
    [i \in 1..Len(LastItems("messages")) |->
        <<"newMessage", LastItems("messages")[i].id>>]
    \o [i \in 1..Len(LastItems("statuses")) |->
        <<"messageStatusUpdate", LastItems("statuses")[i].id>>]

EmittedSketches == [i \in 1..Len(last.emitted) |-> Sketch(last.emitted[i])]

C8_EmitOrder ==
    last.kind = "webhook" =>
        IF last.threw
        THEN /\ Len(EmittedSketches) <= Len(ExpectedSketches)
             /\ EmittedSketches = SubSeq(ExpectedSketches, 1, Len(EmittedSketches))
        ELSE EmittedSketches = ExpectedSketches

\* A delivery of 2 messages, 1 status and 1 contact has emitted newMessage,
\* newMessage, messageStatusUpdate.
C8_Witness ==
    /\ LastWebhookOk
    /\ Len(LastItems("messages")) = 2
    /\ Len(LastItems("statuses")) = 1
    /\ Len(LastItems("contacts")) = 1
    /\ [i \in 1..Len(last.emitted) |-> last.emitted[i].event]
           = <<"newMessage", "newMessage", "messageStatusUpdate">>

(***************************************************************************)
(* C9.  After the same requests, the deployment with db set and the one    *)
(* with db = null answer GET /api/messages/:wa_id alike for every wa_id,   *)
(* and GET /api/contacts alike: the same records, with the same fields and *)
(* values, in the same order.  The _id of a record and the sample contacts *)
(* contactsStore starts with are set aside.                                *)
(***************************************************************************)
WithoutId(docs) ==
    [i \in 1..Len(docs) |-> [f \in DOMAIN docs[i] \ {"_id"} |-> docs[i][f]]]

NotSample(contact) == contact.wa_id \notin {SeedContacts[i].wa_id : i \in 1..Len(SeedContacts)}

C9_FallbackEquivalence ==
    /\ \A wa_id \in WaIds :
          WithoutId(GetMessages(TRUE, processed_messages, wa_id))
              = WithoutId(GetMessages(FALSE, messagesStore, wa_id))
    /\ SelectSeq(GetContacts(TRUE, contactsColl), NotSample)
          = SelectSeq(GetContacts(FALSE, contactsStore), NotSample)

(***************************************************************************)
(* C10.  POST /webhook with an envelope that has no entry, or whose        *)
(* entry[0].changes[0].field is not "messages", changes neither the        *)
(* messages nor the contacts (of either store), emits no realtime event    *)
(* and is answered 200.                                                    *)
(***************************************************************************)
MissingEntry(p) == ~IsSome(p.entry)

OtherField(p) ==
    /\ IsSome(p.entry) /\ Len(Get(p.entry)) >= 1
    /\ IsSome(Get(p.entry)[1].changes) /\ Len(Get(Get(p.entry)[1].changes)) >= 1
    /\ Get(Get(p.entry)[1].changes)[1].field # "messages"

C10_IgnoredEnvelope ==
    [][/\ nreq' = nreq + 1
       /\ last'.kind = "webhook"
       /\ MissingEntry(last'.payload) \/ OtherField(last'.payload)
       /\ WebhookPost(last'.payload)
       => /\ UNCHANGED <<messagesStore, contactsStore, processed_messages, contactsColl>>
          /\ last'.emitted = <<>>
          /\ last'.code = 200]_vars

\* An envelope of another field, carrying a message, a status and a contact,
\* was answered 200 while a message was stored.
C10_Witness ==
    /\ LastWebhookOk
    /\ OtherField(last.payload)
    /\ IsSome(Get(Get(last.payload.entry)[1].changes)[1].value)
    /\ last.emitted = <<>>
    /\ Messages # <<>>

(***************************************************************************)
(* C11.  POST /webhook with an envelope whose entry[0].changes is an empty *)
(* array is a no-op: the handler does not throw, neither store changes,    *)
(* nothing is emitted and the request is answered 200.                     *)
(***************************************************************************)
EmptyChanges(p) ==
    /\ IsSome(p.entry) /\ Len(Get(p.entry)) >= 1
    /\ IsSome(Get(p.entry)[1].changes)
    /\ Get(Get(p.entry)[1].changes) = <<>>

C11_EmptyChangesIsNoOp ==
    [][/\ nreq' = nreq + 1
       /\ last'.kind = "webhook"
       /\ EmptyChanges(last'.payload)
       /\ WebhookPost(last'.payload)
       => /\ UNCHANGED <<messagesStore, contactsStore, processed_messages, contactsColl>>
          /\ last'.emitted = <<>>
          /\ ~last'.threw
          /\ last'.code = 200]_vars

(***************************************************************************)
(* C12.  A message event without id is skipped by POST /webhook: no record *)
(* is stored and no newMessage is emitted for it, and the handler goes on  *)
(* with the other items.  With db = null the records the handler appended  *)
(* and the newMessage events it emitted are those of the messages that     *)
(* have an id, in list order; with db set the step of a message without id *)
(* leaves the collection as it was, emits nothing and does not throw.      *)
(***************************************************************************)
HasId(item) == item.id # Undef

IdsOf(seq) == [i \in 1..Len(seq) |-> seq[i].id]

IsNewMessage(event) == event.event = "newMessage"

NewMessageIds(emitted) ==
    LET kept == SelectSeq(emitted, IsNewMessage)
    IN  [i \in 1..Len(kept) |-> kept[i].message.id]

C12_MessageWithoutIdSkipped ==
    [][/\ \A k \in DOMAIN inflight :
             DbStep(k, "webhook", "messages") /\ ~HasId(ItemAt(k))
                 => /\ Messages' = Messages
                    /\ NotThrown
                    /\ Len(inflight') = Len(inflight)
                          => inflight'[k].emitted = inflight[k].emitted
                    /\ Len(inflight') < Len(inflight)
                          => last'.emitted = inflight[k].emitted
       /\ MemRun =>
             /\ IdsOf(SubSeq(Messages', Len(Messages) + 1, Len(Messages')))
                   = IdsOf(SelectSeq(MemItems("messages"), HasId))
             /\ NewMessageIds(last'.emitted)
                   = IdsOf(SelectSeq(MemItems("messages"), HasId))]_vars

(***************************************************************************)
(* C13.  GET /api/messages/:wa_id answers, for every wa_id and in every    *)
(* reachable state, with exactly the stored messages of that wa_id, in     *)
(* ascending order of timestamp; with db set and with db = null.           *)
(***************************************************************************)
Ascending(docs) ==
    \A i, j \in DOMAIN docs :
        i < j => ~NumLess(docs[j].timestamp, docs[i].timestamp)

ExactlyOf(docs, wa_id) ==
    /\ \A i \in DOMAIN docs : docs[i].wa_id = wa_id
    /\ \A doc \in Range(Messages) :
          doc.wa_id = wa_id =>
              Cardinality({i \in DOMAIN docs : docs[i] = doc})
                  = Cardinality({i \in DOMAIN Messages : Messages[i] = doc})

C13_ListSortedByTimestamp ==
    \A wa_id \in WaIds :
        /\ ExactlyOf(GetMessages(db, Messages, wa_id), wa_id)
        /\ Ascending(GetMessages(db, Messages, wa_id))

(***************************************************************************)
(* C14.  GET /webhook answers 200 with the challenge exactly when mode is  *)
(* "subscribe", a verify token is configured, a token is supplied and the  *)
(* two are equal; in every other case it answers 403.                      *)
(***************************************************************************)
TokenMatchesSecret(query) ==
    /\ query.secret # Undef
    /\ query.token # Undef
    /\ query.token = query.secret

C14_HandshakeNeedsSecret ==
    last.kind = "verify" =>
        IF last.payload.mode = "subscribe" /\ TokenMatchesSecret(last.payload)
        THEN last.code = 200 /\ last.body = [text |-> last.payload.challenge]
        ELSE last.code = 403

(***************************************************************************)
(* C15.  POST /api/messages either answers 201 or answers 500.  With 201   *)
(* one record was added: its _id is the server's (no stored record had it, *)
(* and it is not the body's _id), its timestamp is Date.now() (not the     *)
(* body's), its other fields are the body's; newMessage was emitted once,  *)
(* with that record, and the response body is that record.  With 500 (the  *)
(* persistence call threw) the messages are unchanged, nothing was         *)
(* emitted and the response is the error body.                             *)
(***************************************************************************)
\* This step is POST /api/messages, on the body that last' records.
ApiStep ==
    /\ nreq' = nreq + 1
    /\ last'.kind = "api"
    /\ \E now \in NowValues, fault \in BOOLEAN :
          ApiPostMessage(last'.payload, now, fault)

Stored == Messages'[Len(Messages')]

C15_ApiPostAssignsPersistsBroadcasts ==
    [][ApiStep =>
          IF last'.code = 201
          THEN /\ Len(Messages') = Len(Messages) + 1
               /\ SubSeq(Messages', 1, Len(Messages)) = Messages
               /\ \A i \in DOMAIN Messages : Messages[i]._id # Stored._id
               /\ Stored._id # last'.payload._id
               /\ Stored.timestamp \in NowValues
               /\ Stored.timestamp # last'.payload.timestamp
               /\ \A f \in DOMAIN last'.payload \ {"_id", "timestamp"} :
                      Stored[f] = last'.payload[f]
               /\ last'.emitted = <<NewMessageEvent(Stored)>>
               /\ last'.body = Stored
          ELSE /\ last'.code = 500
               /\ last'.threw
               /\ Messages' = Messages
               /\ last'.emitted = <<>>
               /\ last'.body = [error |-> "Failed to save message"]]_vars

\* A body that brought its own timestamp and _id was answered 201 with the
\* record last stored, which carries the server's values.
C15_Witness ==
    /\ last.kind = "api"
    /\ last.code = 201
    /\ last.payload.timestamp = ClientTimestamp
    /\ Messages # <<>>
    /\ last.body = Messages[Len(Messages)]
    /\ Messages[Len(Messages)].timestamp \in NowValues
    /\ Messages[Len(Messages)]._id # last.payload._id

(***************************************************************************)
(* C16.  A persistence call that throws while the server handles POST      *)
(* /webhook, POST /api/messages or a read route ends that request with     *)
(* 500 and the route's fixed error body, changes no store and leaves the   *)
(* other suspended handlers in place; after a 500 the server still takes   *)
(* requests.  POST /webhook answers 200 whenever nothing threw: no store   *)
(* fault, no duplicate _id on insertOne, no read of changes[0].field on an *)
(* empty changes array.                                                    *)
(***************************************************************************)
FixedErrors ==
    {[error |-> "Webhook processing failed"], [error |-> "Failed to save message"],
     [error |-> "Failed to fetch contacts"], [error |-> "Failed to fetch messages"]}

\* The persistence call of this step threw because the store failed.
StoreFault == nfault' = nfault + 1

\* insertOne of the k-th suspended handler meets a stored _id.
DuplicateKey(k) ==
    /\ inflight[k].kind = "webhook"
    /\ inflight[k].pos.phase = "messages"
    /\ \E i \in DOMAIN Messages : Messages[i]._id = <<"msg", ItemAt(k).id>>

Answered500 ==
    /\ last'.code = 500
    /\ last'.threw
    /\ last'.body \in FixedErrors
    /\ last'.body = ErrorBody(last'.kind)
    /\ UNCHANGED <<db, messagesStore, contactsStore, processed_messages, contactsColl>>
    /\ Len(inflight') >= Len(inflight) - 1
    /\ \A j \in DOMAIN inflight' : \E i \in DOMAIN inflight : inflight'[j] = inflight[i]

C16_Steps ==
    /\ StoreFault /\ last'.kind # "replay" => Answered500
    /\ \A k \in DOMAIN inflight :
          /\ Resume(k, FALSE) /\ DuplicateKey(k) => Answered500
          /\ /\ Resume(k, FALSE)
             /\ inflight[k].kind = "webhook"
             /\ ~DuplicateKey(k)
             /\ Len(inflight') < Len(inflight)
             => last'.code = 200 /\ last'.body = [success |-> TRUE]
    /\ /\ nreq' = nreq + 1
       /\ Len(inflight') = Len(inflight)
       /\ last'.kind = "webhook"
       /\ WebhookPost(last'.payload)
       /\ ~EmptyChanges(last'.payload)
       => last'.code = 200 /\ last'.body = [success |-> TRUE]

StillServing ==
    last.code = 500 /\ nreq < MaxRequests =>
        /\ \A payload \in ApiPayloads : ENABLED WebhookPost(payload)
        /\ ENABLED ApiGetContacts(FALSE)

C16_ThrowAnswers500 == [][C16_Steps]_vars /\ []StillServing

\* A store fault has ended one handler, and a POST /webhook that finished
\* after it was handled to its end and answered 200.
C16_Witness ==
    /\ nfault > 0
    /\ LastWebhookOk
    /\ inflight = <<>>
    /\ last.emitted # <<>>

(***************************************************************************)
(* C17.  A status event {id, status, timestamp} applied without a failure  *)
(* leaves the stored message it matches with status equal to the event's   *)
(* status and status_timestamp equal to the event's timestamp (seconds)    *)
(* times 1000.  Server with db set, server with db = null, and the replay  *)
(* script.                                                                 *)
(***************************************************************************)
StatusAndStampSet(s) ==
    \A i \in FirstWithEitherId(Messages', s.id) :
        /\ Messages'[i].status = s.status
        /\ Messages'[i].status_timestamp = Millis(s)

C17_StatusTimestampSet ==
    [][/\ \A k \in DOMAIN inflight :
             DbStep(k, "webhook", "statuses") \/ DbStep(k, "replay", "statuses")
                 => StatusAndStampSet(ItemAt(k))
       /\ MemRun /\ Len(MemItems("statuses")) = 1
             => StatusAndStampSet(MemItems("statuses")[1])]_vars

(***************************************************************************)
(* C18.  A status step changes nothing of the stored messages but the      *)
(* status and status_timestamp of one record: no record is added or        *)
(* removed, every record keeps all its other fields, and at most one       *)
(* record per status event differs at all.  Server with db set, server     *)
(* with db = null (the records stored before the request), and the replay  *)
(* script.                                                                 *)
(***************************************************************************)
StatusFields == {"status", "status_timestamp"}

OnlyStatusChanged(before, after) ==
    /\ DOMAIN after = DOMAIN before
    /\ \A f \in DOMAIN before \ StatusFields : after[f] = before[f]

StatusStepFrame(n) ==
    /\ Len(Messages') >= Len(Messages)
    /\ \A i \in DOMAIN Messages : OnlyStatusChanged(Messages[i], Messages'[i])
    /\ Cardinality({i \in DOMAIN Messages : Messages'[i] # Messages[i]}) <= n

C18_StatusChangesOnlyStatus ==
    [][/\ \A k \in DOMAIN inflight :
             DbStep(k, "webhook", "statuses") \/ DbStep(k, "replay", "statuses")
                 => Len(Messages') = Len(Messages) /\ StatusStepFrame(1)
       /\ MemRun /\ MemItems("statuses") # <<>>
             => /\ Len(Messages') = Len(Messages) + Len(MemItems("messages"))
                /\ StatusStepFrame(Len(MemItems("statuses")))]_vars

\* A webhook status event has changed the status of one stored message while
\* another stored message kept its own.
C18_Witness ==
    /\ LastWebhookOk
    /\ LastItems("messages") = <<>>
    /\ Len(LastItems("statuses")) = 1
    /\ \E i, j \in DOMAIN Messages :
          /\ i # j
          /\ EitherId(Messages[i], LastItems("statuses")[1].id)
          /\ Messages[i].status = LastItems("statuses")[1].status
          /\ ~EitherId(Messages[j], LastItems("statuses")[1].id)
          /\ Messages[j].status # LastItems("statuses")[1].status

(***************************************************************************)
(* C19.  Every newMessage event reaches every connected socket, whatever   *)
(* conversation rooms the socket joined or left: a step that emits the     *)
(* records msgs (the webhook message step with db set, its insert done, or *)
(* with db = null, or POST /api/messages answering 201) appends exactly    *)
(* msgs, in order, to the list of each connected client, and leaves the    *)
(* lists of the others alone.                                              *)
(***************************************************************************)
Delivered(msgs) ==
    \A c \in ClientIds :
        clients'[c].messages =
            IF clients[c].connected THEN clients[c].messages \o msgs
            ELSE clients[c].messages

\* The records the handler of MemRun builds, in the order of the payload.
MemNewMessages ==
    LET es == MemItems("messages")
    IN  [i \in DOMAIN es |->
            ServerProcessedMessage(es[i], Get(Extract(last'.payload).value))]

C19_NewMessageToAllConnected ==
    [][/\ \A k \in DOMAIN inflight :
             DbStep(k, "webhook", "messages") /\ ~DuplicateKey(k) =>
                 Delivered(<<ServerProcessedMessage(ItemAt(k), inflight[k].value)>>)
       /\ MemRun => Delivered(MemNewMessages)
       /\ ApiStep /\ last'.code = 201 => Delivered(<<last'.body>>)]_vars

\* A socket that joined another conversation's room, and none for the
\* conversation of the message just emitted, holds that message.
C19_Witness ==
    \E c \in ClientIds, i \in DOMAIN last.emitted :
        /\ last.emitted[i].event = "newMessage"
        /\ clients[c].connected
        /\ clients[c].rooms # {}
        /\ last.emitted[i].message.wa_id \notin clients[c].rooms
        /\ \E j \in DOMAIN clients[c].messages :
               clients[c].messages[j] = last.emitted[i].message

(***************************************************************************)
(* C20.  A status change the webhook applies shows in the connected        *)
(* clients: when the status step emits messageStatusUpdate for the id of a *)
(* webhook-ingested message (its _id is `msg_${id}`) that a connected      *)
(* client holds in its list, the client's copy has the new status after    *)
(* the step.                                                               *)
(***************************************************************************)
Reflected(status) ==
    \A c \in ClientIds :
        clients[c].connected =>
            \A i \in DOMAIN clients[c].messages :
                /\ clients[c].messages[i].id = status.id
                /\ clients[c].messages[i]._id = <<"msg", status.id>>
                => /\ i \in DOMAIN clients'[c].messages
                   /\ clients'[c].messages[i].status = status.status

\* The status events of the run that no later one of the run overrides.
LastWord(ss) ==
    {ss[i] : i \in {i \in DOMAIN ss :
                        \A j \in DOMAIN ss : j > i => ss[j].id # ss[i].id}}

C20_StatusReflectedInClients ==
    [][/\ \A k \in DOMAIN inflight :
             DbStep(k, "webhook", "statuses") => Reflected(ItemAt(k))
       /\ MemRun => \A s \in LastWord(MemItems("statuses")) : Reflected(s)]_vars

(***************************************************************************)
(* C21.  The unreadCount a client shows for a contact goes up by one for   *)
(* each inbound message (from is not 'me') that arrives for the contact    *)
(* while its conversation is not the selected one, stays as it is for a    *)
(* message that arrives while the conversation is the selected one, and is *)
(* zero once the viewer has opened the conversation.                       *)
(***************************************************************************)
Inbound(msgs, wa_id) ==
    Cardinality({j \in DOMAIN msgs : msgs[j].wa_id = wa_id /\ msgs[j].from # "me"})

Counted(msgs) ==
    \A c \in ClientIds :
        clients[c].connected =>
            /\ DOMAIN clients'[c].contacts = DOMAIN clients[c].contacts
            /\ \A i \in DOMAIN clients[c].contacts :
                  clients'[c].contacts[i].unreadCount =
                      clients[c].contacts[i].unreadCount +
                      IF clients[c].selected = Some(clients[c].contacts[i].wa_id)
                      THEN 0
                      ELSE Inbound(msgs, clients[c].contacts[i].wa_id)

C21_UnreadOnlyWhenNotViewed ==
    [][/\ \A k \in DOMAIN inflight :
             DbStep(k, "webhook", "messages") /\ ~DuplicateKey(k) =>
                 Counted(<<ServerProcessedMessage(ItemAt(k), inflight[k].value)>>)
       /\ MemRun => Counted(MemNewMessages)
       /\ ApiStep /\ last'.code = 201 => Counted(<<last'.body>>)
       /\ \A c \in ClientIds : \A i \in DOMAIN clients[c].contacts :
             HandleContactClick(c, i) =>
                 /\ clients'[c].selected = Some(clients[c].contacts[i].wa_id)
                 /\ clients'[c].contacts[i].unreadCount = 0]_vars

(***************************************************************************)
(* C22.  Once POST /webhook has handled a payload with a message event     *)
(* from conversation id C (answering 200), the contact store holds a       *)
(* record with wa_id C, whether or not the payload has a contacts list;    *)
(* and no step of a webhook handler or of the replay script removes a      *)
(* contact record.                                                         *)
(***************************************************************************)
HasContact(wa_id) == \E i \in DOMAIN Contacts : Contacts[i].wa_id = wa_id

ContactForEverySender ==
    LastWebhookOk => \A e \in Range(LastItems("messages")) : HasContact(e.from)

NoContactRemoved ==
    \A i \in DOMAIN Contacts :
        \E j \in DOMAIN Contacts' : Contacts'[j].wa_id = Contacts[i].wa_id

C22_MessageCreatesContact == []ContactForEverySender /\ [][NoContactRemoved]_vars

(***************************************************************************)
(* C23.  Every record built from a webhook message event, by the server    *)
(* (db set or db = null) or by the replay script, has meta_msg_id equal to *)
(* its id, wa_id equal to the event's from, status "received", and as      *)
(* profile_name the profile name of the payload's first contact if there   *)
(* is one, else the event's from.  With db = null the handler runs to its  *)
(* end in one step, so a record that a status event of the same payload    *)
(* names may have that event's status by the end of the step.              *)
(***************************************************************************)
DisplayName(value, e) ==
    IF IsSome(value.contacts) /\ Get(value.contacts) # <<>>
    THEN Get(value.contacts)[1].profile.name
    ELSE e.from

CanonicalRecord(rec, value, e, later) ==
    /\ rec.id = e.id
    /\ rec.meta_msg_id = rec.id
    /\ rec.wa_id = e.from
    /\ \/ rec.status = "received"
       \/ \E s \in Range(later) : s.id = e.id /\ s.status = rec.status
    /\ rec.profile_name = DisplayName(value, e)

\* The record with the _id of the event, as stored after the step.
CreatedFrom(value, e, later) ==
    \E i \in DOMAIN Messages' :
        /\ Messages'[i]._id = <<"msg", e.id>>
        /\ CanonicalRecord(Messages'[i], value, e, later)

\* The upsert of the replay script meets no record that has the id of the
\* event under another _id.
NoOtherKey(e) ==
    \A i \in DOMAIN Messages :
        Messages[i].id = e.id => Messages[i]._id = <<"msg", e.id>>

ReplayRecordsCanonical ==
    \A k \in DOMAIN inflight :
        DbStep(k, "replay", "messages") /\ NoOtherKey(ItemAt(k)) =>
            CreatedFrom(inflight[k].value, ItemAt(k), <<>>)

ServerRecordsCanonical ==
    /\ \A k \in DOMAIN inflight :
          DbStep(k, "webhook", "messages") /\ ~DuplicateKey(k) =>
              CreatedFrom(inflight[k].value, ItemAt(k), <<>>)
    /\ MemRun =>
          \A e \in Range(MemItems("messages")) :
              CreatedFrom(Get(Extract(last'.payload).value), e,
                          MemItems("statuses"))

C23_RecordBuiltFromEvent ==
    [][ReplayRecordsCanonical /\ ServerRecordsCanonical]_vars

(***************************************************************************)
(* C24.  A status event without an id is skipped by POST /webhook: the     *)
(* step that handles it changes the status of no stored message (a stored  *)
(* message without meta_msg_id is not taken for a match), and the handler  *)
(* goes on to the rest of the payload and answers 200.                     *)
(***************************************************************************)
LacksId(s) == s.id = Undef

\* Every record stored before the step keeps its status, and a record the
\* step adds has the status it was built with.
NoStatusChanged ==
    /\ Len(Messages') >= Len(Messages)
    /\ \A i \in DOMAIN Messages' :
          Messages'[i].status =
              IF i \in DOMAIN Messages THEN Messages[i].status ELSE "received"

C24_StatusWithoutIdSkipped ==
    [][/\ \A k \in DOMAIN inflight :
             DbStep(k, "webhook", "statuses") /\ LacksId(ItemAt(k)) =>
                 /\ NoStatusChanged
                 /\ last' # last => last'.code = 200
       /\ MemRun /\ (\A s \in Range(MemItems("statuses")) : LacksId(s)) =>
             /\ NoStatusChanged
             /\ last'.code = 200]_vars

(***************************************************************************)
(* C25.  A null in place of one sub-event of a payload touches that item   *)
(* alone: the handler (POST /webhook with db set or db = null, or the      *)
(* replay script) goes on to the items after it, what the other items of   *)
(* the payload store is stored, and the payload as a whole does not fail.  *)
(***************************************************************************)
\* The k-th suspended handler, at a null, goes on: to its next item, or to
\* its end without having failed.
GoesOn(k) ==
    IF NextPos(inflight[k].value, inflight[k].pos) = Finished
    THEN /\ last'.payload = inflight[k].payload
         /\ ~last'.threw
    ELSE Len(inflight') = Len(inflight)

NullsOf(phase) == {i \in DOMAIN MemItems(phase) : IsNull(MemItems(phase)[i])}

OthersApplied ==
    /\ \A e \in Range(MemItems("messages")) :
          ~IsNull(e) => \E i \in DOMAIN Messages' : Messages'[i]._id = <<"msg", e.id>>
    /\ \A c \in Range(MemItems("contacts")) :
          ~IsNull(c) => \E i \in DOMAIN Contacts' : Contacts'[i].wa_id = c.wa_id

C25_MalformedItemContained ==
    [][/\ \A k \in DOMAIN inflight :
             (\E kind \in {"webhook", "replay"} :
                  DbStep(k, kind, inflight[k].pos.phase)) /\ IsNull(ItemAt(k))
                 => GoesOn(k)
       /\ MemRun /\ Cardinality(NullsOf("messages")) + Cardinality(NullsOf("statuses"))
                     + Cardinality(NullsOf("contacts")) = 1
             => last'.code = 200 /\ OthersApplied]_vars

(***************************************************************************)
(* C26.  When several stored messages match the id of a status event that  *)
(* POST /webhook handles (by id or by meta_msg_id), the step sets the      *)
(* status of exactly one of them, the first in the order of the store, and *)
(* leaves every other record as it was.                                    *)
(***************************************************************************)
Matches(store, X) ==
    {i \in DOMAIN store : store[i].id = X \/ store[i].meta_msg_id = X}

Several(store, X) == Cardinality(Matches(store, X)) >= 2

FirstOnly(before, after, s) ==
    /\ Len(after) = Len(before)
    /\ \E f \in Matches(before, s.id) :
          /\ \A j \in Matches(before, s.id) : f <= j
          /\ after[f] = [before[f] EXCEPT !.status = s.status]
          /\ \A i \in DOMAIN before \ {f} : after[i] = before[i]

\* With db = null the store the status loop sees has the records of the
\* payload's messages pushed at its end.
MemBefore == Messages \o MemNewMessages

C26_FirstMatchOnly ==
    [][/\ \A k \in DOMAIN inflight :
             DbStep(k, "webhook", "statuses") /\ Several(Messages, ItemAt(k).id)
                 => FirstOnly(Messages, Messages', ItemAt(k))
       /\ MemRun /\ Len(MemItems("statuses")) = 1
                 /\ Several(MemBefore, MemItems("statuses")[1].id)
             => FirstOnly(MemBefore, Messages', MemItems("statuses")[1])]_vars

\* Two stored records match the id of the status event just handled; the
\* earlier one has its status and the later one has not.
C26_Witness ==
    /\ LastWebhookOk
    /\ \E s \in Range(LastItems("statuses")) :
          \E i, j \in Matches(Messages, s.id) :
              /\ i < j
              /\ Messages[i].status = s.status
              /\ Messages[j].status # s.status

(***************************************************************************)
(* C27.  Within one payload the messages are handled before the statuses:  *)
(* when POST /webhook handles, with nothing interleaved, a payload that    *)
(* carries a message with an id X that no stored record has and a status   *)
(* event for X, the record of X is stored with the status of the status    *)
(* event, not "received" (with db set and with db = null).                 *)
(***************************************************************************)
BothRun ==
    /\ nreq' = nreq + 1
    /\ last'.kind = "webhook"
    /\ BothWebhookPost(last'.payload)

NewTo(store, X) == Matches(store, X) = {}

EndsWith(store, X, status) ==
    \E i \in DOMAIN store : store[i]._id = <<"msg", X>> /\ store[i].status = status

C27_MessagesBeforeStatuses ==
    [][BothRun =>
          \A e \in Range(MemItems("messages")) :
              \A s \in LastWord(MemItems("statuses")) :
                  /\ s.id = e.id
                  /\ NewTo(processed_messages, e.id)
                  /\ NewTo(messagesStore, e.id)
                  => /\ EndsWith(processed_messages', e.id, s.status)
                     /\ EndsWith(messagesStore', e.id, s.status)]_vars

\* The payload just handled brought a message and its status, and the one
\* record of that message has the status, in both stores.
C27_Witness ==
    /\ LastWebhookOk
    /\ \E e \in Range(LastItems("messages")) :
          \E s \in Range(LastItems("statuses")) :
              /\ s.id = e.id
              /\ s.status # "received"
              /\ Cardinality(Matches(processed_messages, e.id)) = 1
              /\ Cardinality(Matches(messagesStore, e.id)) = 1
              /\ EndsWith(processed_messages, e.id, s.status)
              /\ EndsWith(messagesStore, e.id, s.status)

(***************************************************************************)
(* C28.  A status event for X handled before the message X is stored is    *)
(* lost: the step of POST /webhook that stores a message stores it with    *)
(* status "received" whatever status events were handled before, and the   *)
(* status of a stored record that is "received" changes only in a step     *)
(* that handles a status event naming the record.                          *)
(***************************************************************************)
AddedAsReceived ==
    /\ Len(Messages') > Len(Messages)
    /\ \A i \in DOMAIN Messages' \ DOMAIN Messages : Messages'[i].status = "received"

Refers(s, rec) == rec.id = s.id \/ rec.meta_msg_id = s.id

\* This step handles a status event that names rec and carries status.
StatusStepFor(rec, status) ==
    \/ \E k \in DOMAIN inflight :
          /\ (DbStep(k, "webhook", "statuses") \/ DbStep(k, "replay", "statuses"))
          /\ Refers(ItemAt(k), rec)
          /\ ItemAt(k).status = status
    \/ /\ MemRun
       /\ \E s \in Range(MemItems("statuses")) : Refers(s, rec) /\ s.status = status

StaysReceived ==
    \A i \in DOMAIN Messages :
        /\ i \in DOMAIN Messages'
        /\ Messages[i].status = "received" /\ Messages'[i].status # "received"
              => StatusStepFor(Messages[i], Messages'[i].status)

C28_EarlyStatusIsMissed ==
    [][/\ \A k \in DOMAIN inflight :
             DbStep(k, "webhook", "messages") /\ ~DuplicateKey(k) => AddedAsReceived
       /\ MemRun /\ MemItems("messages") # <<>> /\ MemItems("statuses") = <<>>
             => AddedAsReceived
       /\ StaysReceived]_vars

\* With db = null two deliveries were handled, the later one brought the
\* message, and its record is the only one stored: the earlier one was the
\* status event for it, and the record is "received".
C28_Witness ==
    /\ ~db
    /\ nreq = 2
    /\ LastWebhookOk
    /\ Len(LastItems("messages")) = 1
    /\ Len(messagesStore) = 1
    /\ messagesStore[1]._id = <<"msg", LastItems("messages")[1].id>>
    /\ messagesStore[1].status = "received"

(***************************************************************************)
(* C29.  The broadcast follows the persistence call: the record of every   *)
(* newMessage event that POST /webhook or POST /api/messages emits in a    *)
(* step is in the store at the end of that step, as emitted; and a step    *)
(* whose persistence call threw emits nothing and changes no stored        *)
(* record.  With db = null the handler runs to its end in one step, so a   *)
(* status event later in the payload may have set the status of the        *)
(* stored record.                                                          *)
(***************************************************************************)
\* What the k-th suspended handler emits in this step.
EmittedNow(k) ==
    LET sofar == IF Len(inflight') < Len(inflight) THEN last'.emitted
                 ELSE inflight'[k].emitted
    IN  SubSeq(sofar, Len(inflight[k].emitted) + 1, Len(sofar))

NewMessagesIn(events) ==
    {events[i].message : i \in {j \in DOMAIN events : events[j].event = "newMessage"}}

InStore(msg) == \E i \in DOMAIN Messages' : Messages'[i] = msg

InStoreButStatus(msg) ==
    \E i \in DOMAIN Messages' : [Messages'[i] EXCEPT !.status = msg.status] = msg

CallThrew(k, fault) ==
    \/ fault
    \/ inflight[k].pos.phase = "messages" /\ DuplicateKey(k)

C29_BroadcastFollowsPersistence ==
    [][/\ \A k \in DOMAIN inflight : \A fault \in BOOLEAN :
             inflight[k].kind = "webhook" /\ Resume(k, fault) =>
                 /\ \A msg \in NewMessagesIn(EmittedNow(k)) : InStore(msg)
                 /\ CallThrew(k, fault) =>
                        /\ EmittedNow(k) = <<>>
                        /\ Messages' = Messages
       /\ MemRun => \A msg \in NewMessagesIn(last'.emitted) : InStoreButStatus(msg)
       /\ ApiStep =>
             /\ \A msg \in NewMessagesIn(last'.emitted) : InStore(msg)
             /\ last'.code = 201 => NewMessagesIn(last'.emitted) # {}
             /\ last'.code = 500 => last'.emitted = <<>> /\ Messages' = Messages]_vars

\* The run just finished emitted a newMessage, and its record is stored.
C29_Witness ==
    /\ db
    /\ last.kind \in {"webhook", "api"}
    /\ \E msg \in NewMessagesIn(last.emitted) :
          \E i \in DOMAIN Messages : Messages[i] = msg

(***************************************************************************)
(* C30.  A run of POST /webhook in which no persistence call failed (it    *)
(* answered 200) has emitted one messageStatusUpdate for each status event *)
(* of the payload's statuses list, in the order of the list, each with the *)
(* id and the status of its event, whether or not a stored message         *)
(* matched.                                                                *)
(***************************************************************************)
IsStatusUpdate(event) == event.event = "messageStatusUpdate"

StatusUpdatesOf(events) ==
    LET updates == SelectSeq(events, IsStatusUpdate)
    IN  [i \in DOMAIN updates |->
            [messageId |-> updates[i].messageId, status |-> updates[i].status]]

C30_OneUpdatePerStatusEvent ==
    LastWebhookOk =>
        StatusUpdatesOf(last.emitted) =
            [i \in DOMAIN LastItems("statuses") |->
                [messageId |-> LastItems("statuses")[i].id,
                 status |-> LastItems("statuses")[i].status]]

\* The run just finished emitted the update of a status event whose id no
\* stored message has.
C30_Witness ==
    /\ LastWebhookOk
    /\ \E i \in DOMAIN LastItems("statuses") :
          /\ Matches(Messages, LastItems("statuses")[i].id) = {}
          /\ i \in DOMAIN StatusUpdatesOf(last.emitted)
          /\ StatusUpdatesOf(last.emitted)[i].messageId = LastItems("statuses")[i].id

====
